---- MODULE Spec2Model ----
(***************************************************************************)
(* Model of the two static-file server scripts of the repository:         *)
(*   serve-test.py    (chdir to the script directory, MyHandler with the   *)
(*                     default-document rewrite, try/except around         *)
(*                     serve_forever)                                      *)
(*   simple-server.py (plain SimpleHTTPRequestHandler inside a `with`      *)
(*                     block)                                              *)
(*                                                                         *)
(* A request path is a sequence of lexical tokens: "/" , "?" , ".." and    *)
(* file names.  Two adjacent name tokens form one (longer) path segment.   *)
(* The path of a request is self.path as do_GET receives it.               *)
(*                                                                         *)
(* The library calls of the scripts (socketserver.TCPServer,               *)
(* SimpleHTTPRequestHandler, posixpath.normpath, urlsplit) are modelled by *)
(* what CPython 3 does.  An uncaught KeyboardInterrupt ends the process    *)
(* with status 130 (Python 3.8 and later; 1 before): non-zero either way.  *)
(***************************************************************************)
EXTENDS Integers, Sequences, FiniteSets, TLC

VARIABLES
    \* ---- process lifecycle (one entry per process) ----
    pc,          \* position of the process in its script
    script,      \* which script the process runs
    launchDir,   \* directory the process was launched from
    cwd,         \* current working directory of the process
    sock,        \* the listening socket: none, listening, closed (by
                 \* server_close), unbound (closed after a failed bind),
                 \* reaped (released by the system when the process died)
    closes,      \* number of server_close() calls
    binds,       \* number of bind attempts
    banners,     \* number of times the startup banner was printed
    exitStatus,  \* exit status of the process
    last,        \* the most recent request answered over the listening
                 \* socket that is open now: who served it, from which
                 \* directory, with what outcome, and how often the handler
                 \* was run for it
    sigs,        \* signals delivered to the process
    intServing,  \* an interrupt arrived while the process was in serve_forever
    portOwner,   \* process holding the ("", PORT) binding, 0 if none
    \* ---- one GET request through the handler ----
    hPc, hScript, hReq, hFs, hPassed, hResp

lifeVars == <<pc, script, launchDir, cwd, sock, closes, binds, banners,
              exitStatus, last, sigs,
              intServing, portOwner>>
reqVars == <<hPc, hScript, hReq, hFs, hPassed, hResp>>
vars == <<pc, script, launchDir, cwd, sock, closes, binds, banners,
          exitStatus, last, sigs,
          intServing, portOwner, hPc, hScript, hReq, hFs, hPassed, hResp>>

----------------------------------------------------------------------------
\* Bounds of the model
MaxPathLen == 3
NProcs == 2
MaxSignals == 1

\* Program constants
PORT == 8000

Scripts == {"serve-test.py", "simple-server.py"}
ScriptDir == "scriptdir"
Dirs == {ScriptDir, "elsewhere"}

Slash == "/"
Query == "?"
ParDir == ".."
Tokens == {Slash, Query, ParDir, "test-claude-ui.html", "index.html", "sub"}
Paths == UNION {[1..k -> Tokens] : k \in 1..MaxPathLen}

RootPath == <<"/">>
DefaultDocument == <<"/", "test-claude-ui.html">>

Methods == {"GET"}
HeaderSets == {{}, {"If-Modified-Since"}}
Requests == [method : Methods, path : Paths, headers : HeaderSets]

----------------------------------------------------------------------------
\* The served directory tree: kind of each node below the root
NodePaths == {<<"test-claude-ui.html">>, <<"index.html">>, <<"sub">>,
              <<"sub", "index.html">>}
FsStates ==
    {f \in [NodePaths -> {"absent", "file", "dir"}] :
        /\ f[<<"index.html">>] # "dir"
        /\ f[<<"sub">>] # "file"
        /\ f[<<"sub", "index.html">>] # "dir"
        /\ f[<<"sub", "index.html">>] = "file" => f[<<"sub">>] = "dir"}

\* os.path.isdir / os.path.isfile of the node a list of words names
Kind(f, words) ==
    IF words = <<>> THEN "dir"
    ELSE IF ~(\A i \in 1..Len(words) : Len(words[i]) = 1) THEN "absent"
    ELSE LET segs == [i \in 1..Len(words) |-> words[i][1]]
         IN  IF segs \in DOMAIN f THEN f[segs] ELSE "absent"

----------------------------------------------------------------------------
\* Path handling of SimpleHTTPRequestHandler
Min(S) == CHOOSE x \in S : \A y \in S : x <= y

IndexOf(s, toks) ==
    LET I == {i \in 1..Len(s) : s[i] \in toks}
    IN  IF I = {} THEN 0 ELSE Min(I)

\* path.split('?', 1)[0]
StripQuery(s) ==
    LET i == IndexOf(s, {Query})
    IN  IF i = 0 THEN s ELSE SubSeq(s, 1, i - 1)

\* the query part including its "?" (empty when there is no query text)
QueryPart(s) ==
    LET i == IndexOf(s, {Query})
    IN  IF i = 0 \/ i = Len(s) THEN <<>> ELSE SubSeq(s, i, Len(s))

\* str.split('/')
RECURSIVE Split(_)
Split(s) ==
    LET i == IndexOf(s, {Slash})
    IN  IF i = 0 THEN <<s>>
        ELSE <<SubSeq(s, 1, i - 1)>> \o Split(SubSeq(s, i + 1, Len(s)))

EndsWithSlash(s) == Len(s) > 0 /\ s[Len(s)] = Slash

\* posixpath.normpath: the list of components it keeps
RECURSIVE NormFold(_, _, _)
NormFold(comps, acc, absolute) ==
    IF comps = <<>> THEN acc
    ELSE LET c == Head(comps)
             rest == Tail(comps)
         IN  IF c = <<>> THEN NormFold(rest, acc, absolute)
             ELSE IF \/ c # <<ParDir>>
                     \/ (~absolute /\ acc = <<>>)
                     \/ (acc # <<>> /\ acc[Len(acc)] = <<ParDir>>)
                  THEN NormFold(rest, Append(acc, c), absolute)
             ELSE IF acc # <<>>
                  THEN NormFold(rest, SubSeq(acc, 1, Len(acc) - 1), absolute)
             ELSE NormFold(rest, acc, absolute)

NormComps(s) == NormFold(Split(s), <<>>, Len(s) > 0 /\ s[1] = Slash)

\* the loop of translate_path that drops the '..' words
RECURSIVE DropParDirs(_)
DropParDirs(words) ==
    IF words = <<>> THEN <<>>
    ELSE IF Head(words) = <<ParDir>> THEN DropParDirs(Tail(words))
    ELSE <<Head(words)>> \o DropParDirs(Tail(words))

translate_path(path) ==
    LET p == StripQuery(path)
    IN  [words |-> DropParDirs(NormComps(p)),
         trailing |-> EndsWithSlash(p)]

\* urllib.parse.urlsplit(path).path
UrlsplitPath(path) ==
    IF Len(path) >= 2 /\ path[1] = Slash /\ path[2] = Slash
    THEN LET r == SubSeq(path, 3, Len(path))
             i == IndexOf(r, {Slash, Query})
         IN  IF i = 0 THEN <<>> ELSE StripQuery(SubSeq(r, i, Len(r)))
    ELSE StripQuery(path)

----------------------------------------------------------------------------
\* Responses
NoLocation == <<"-">>
NoBody == [kind |-> "empty", dir |-> "-", words |-> <<>>]
NotFound == [status |-> 404, ctype |-> "text/html;charset=utf-8",
             body |-> [kind |-> "error", dir |-> "-", words |-> <<>>], location |-> NoLocation]

FileResponse(rootDir, words, headers) ==
    IF "If-Modified-Since" \in headers
    THEN [status |-> 304, ctype |-> "-", body |-> NoBody, location |-> NoLocation]
    ELSE [status |-> 200, ctype |-> "text/html",
          body |-> [kind |-> "file", dir |-> rootDir, words |-> words], location |-> NoLocation]

\* SimpleHTTPRequestHandler.list_directory
list_directory(rootDir, words) ==
    [status |-> 200, ctype |-> "text/html; charset=utf-8",
     body |-> [kind |-> "listing", dir |-> rootDir, words |-> words], location |-> NoLocation]

\* OpenFile without the except clause: the OSError escapes the handler
OpenFileUncaught(f, rootDir, words, headers) ==
    IF Kind(f, words) = "file"
    THEN FileResponse(rootDir, words, headers)
    ELSE [status |-> 500, ctype |-> "-", body |-> NoBody, location |-> NoLocation]

\* send_head's  try: f = open(path, 'rb')  except OSError: send_error(404)
OpenFile(f, rootDir, words, headers) ==
    IF Kind(f, words) = "file"
    THEN FileResponse(rootDir, words, headers)
    ELSE NotFound

\* SimpleHTTPRequestHandler.send_head followed by the copy of the body:
\* the response to a GET whose self.path is `path`
send_head(f, rootDir, path, headers) ==
    LET tp == translate_path(path)
        index == Append(tp.words, <<"index.html">>)
    IN  IF Kind(f, tp.words) = "dir"
        THEN IF ~EndsWithSlash(UrlsplitPath(path))
             THEN [status |-> 301, ctype |-> "-", body |-> NoBody,
                   location |-> UrlsplitPath(path) \o <<Slash>> \o QueryPart(path)]
             ELSE IF Kind(f, index) = "file"
                  THEN OpenFile(f, rootDir, index, headers)
                  ELSE list_directory(rootDir, tp.words)
        ELSE IF tp.trailing THEN NotFound
        ELSE OpenFile(f, rootDir, tp.words, headers)

\* do_GET without the default-document rewrite
do_GET_NoRewrite(req) == req

\* do_GET comparing the path without its query string
do_GET_IgnoringQuery(req) ==
    IF StripQuery(req.path) = RootPath
    THEN [req EXCEPT !.path = DefaultDocument]
    ELSE req

\* MyHandler.do_GET up to the call of the base class: the request the base
\* handler receives
do_GET(req) ==
    IF req.path = RootPath
    THEN [req EXCEPT !.path = DefaultDocument]
    ELSE req

\* the request the configured handler class hands to SimpleHTTPRequestHandler
HandlerRequest(s, req) ==
    IF s = "serve-test.py" THEN do_GET(req) ELSE req

\* the response of the configured handler class to a GET request
HandlerResponse(s, f, rootDir, req) ==
    LET r == HandlerRequest(s, req)
    IN  send_head(f, rootDir, r.path, r.headers)

----------------------------------------------------------------------------
\* One GET request through the handler class of a script
NoRequest == [method |-> "-", path |-> <<>>, headers |-> {}]
NoResponse == [status |-> 0, ctype |-> "-", body |-> NoBody, location |-> NoLocation]
NoFs == [n \in NodePaths |-> "absent"]

Procs == 1..NProcs
NoLast == [server |-> 0, root |-> "-", outcome |-> "none", attempts |-> 0]
Running == -1

LifeInit ==
    /\ pc = [p \in Procs |-> "launch"]
    /\ script = [p \in Procs |-> "-"]
    /\ launchDir = [p \in Procs |-> "-"]
    /\ cwd = [p \in Procs |-> "-"]
    /\ sock = [p \in Procs |-> "none"]
    /\ closes = [p \in Procs |-> 0]
    /\ binds = [p \in Procs |-> 0]
    /\ banners = [p \in Procs |-> 0]
    /\ exitStatus = [p \in Procs |-> Running]
    /\ last = NoLast
    /\ sigs = [p \in Procs |-> 0]
    /\ intServing = [p \in Procs |-> FALSE]
    /\ portOwner = 0

\* a request arrives at the handler of a script serving some directory tree
InitReq ==
    /\ LifeInit
    /\ hPc = "pending"
    /\ hScript \in Scripts
    /\ hReq \in Requests
    /\ hFs \in FsStates
    /\ hPassed = NoRequest
    /\ hResp = NoResponse

\* the handler class answers the request
HandleGET ==
    /\ hPc = "pending"
    /\ hPassed' = HandlerRequest(hScript, hReq)
    /\ hResp' = HandlerResponse(hScript, hFs, ScriptDir, hReq)
    /\ hPc' = "done"
    /\ UNCHANGED <<hScript, hReq, hFs>>
    /\ UNCHANGED lifeVars

NextReq == HandleGET

SpecReq == InitReq /\ [][NextReq]_vars

----------------------------------------------------------------------------
\* Process lifecycle of the two scripts
\* requests the clients send while a server is serving
ProbePaths == {RootPath, <<"/", "sub">>, <<"/", "..", "/", "index.html">>}
ProbeRequests == [method : Methods, path : ProbePaths, headers : {{}}]
\* and the directory trees they meet: an empty one and a full one
ProbeFs == {f \in FsStates :
              /\ f[<<"sub", "index.html">>] = "absent"
              /\ f[<<"test-claude-ui.html">>] # "dir"
              /\ f[<<"index.html">>] = f[<<"test-claude-ui.html">>]
              /\ (f[<<"sub">>] = "dir") = (f[<<"index.html">>] = "file")}

\* exit statuses: uncaught OSError, uncaught KeyboardInterrupt, death by SIGTERM
BindErrorStatus == 1
KeyboardInterruptStatus == 130
SigtermStatus == 143

Alive(p) == pc[p] \notin {"launch", "exited"}

Init ==
    /\ LifeInit
    /\ hPc = "idle"
    /\ hScript = "-"
    /\ hReq = NoRequest
    /\ hFs = NoFs
    /\ hPassed = NoRequest
    /\ hResp = NoResponse

\* the process is started from some directory
Launch(p) ==
    /\ pc[p] = "launch"
    /\ \E s \in Scripts, d \in Dirs :
         /\ script' = [script EXCEPT ![p] = s]
         /\ launchDir' = [launchDir EXCEPT ![p] = d]
         /\ cwd' = [cwd EXCEPT ![p] = d]
         /\ pc' = [pc EXCEPT ![p] = IF s = "serve-test.py" THEN "chdir" ELSE "create"]
    /\ UNCHANGED <<sock, closes, binds, banners, exitStatus, last, sigs, intServing, portOwner>>
    /\ UNCHANGED reqVars

\* the script without its os.chdir
ChdirSkipped(p) ==
    /\ pc[p] = "chdir"
    /\ pc' = [pc EXCEPT ![p] = "create"]
    /\ UNCHANGED <<script, launchDir, cwd, sock, closes, binds, banners, exitStatus,
                   last, sigs, intServing, portOwner>>
    /\ UNCHANGED reqVars

\* os.chdir(os.path.dirname(os.path.abspath(__file__)))
Chdir(p) ==
    /\ pc[p] = "chdir"
    /\ cwd' = [cwd EXCEPT ![p] = ScriptDir]
    /\ pc' = [pc EXCEPT ![p] = "create"]
    /\ UNCHANGED <<script, launchDir, sock, closes, binds, banners, exitStatus,
                   last, sigs, intServing, portOwner>>
    /\ UNCHANGED reqVars

\* a bind that does not see the holder of the port
BindIgnoresHolder(refused) == ~refused

\* bind(("", PORT)) without SO_REUSEADDR: fails when refused by the system
\* (permission, lingering connections) or when another socket holds the port
BindSucceeds(refused) == ~refused /\ portOwner = 0

\* a server that tries the bind again after a failure
CreateRetrying(p) ==
    /\ pc[p] = "create"
    /\ binds[p] < 3
    /\ binds' = [binds EXCEPT ![p] = @ + 1]
    /\ \E refused \in BOOLEAN :
         IF BindSucceeds(refused)
         THEN /\ sock' = [sock EXCEPT ![p] = "listening"]
              /\ portOwner' = p
              /\ pc' = [pc EXCEPT ![p] = "banner"]
         ELSE /\ sock' = [sock EXCEPT ![p] = "unbound"]
              /\ UNCHANGED <<portOwner, pc>>
    /\ UNCHANGED <<script, launchDir, cwd, closes, exitStatus, banners, last, sigs,
                   intServing>>
    /\ UNCHANGED reqVars

\* socketserver.TCPServer(("", PORT), Handler): create the socket, bind and
\* listen; a failing bind closes the socket and raises OSError, which no
\* script catches
Create(p) ==
    /\ pc[p] = "create"
    /\ binds' = [binds EXCEPT ![p] = @ + 1]
    /\ \E refused \in BOOLEAN :
         IF BindSucceeds(refused)
         THEN /\ sock' = [sock EXCEPT ![p] = "listening"]
              /\ portOwner' = p
              /\ pc' = [pc EXCEPT ![p] = "banner"]
              /\ UNCHANGED <<closes, exitStatus>>
         ELSE /\ sock' = [sock EXCEPT ![p] = "unbound"]
              /\ closes' = [closes EXCEPT ![p] = @ + 1]
              /\ pc' = [pc EXCEPT ![p] = "exited"]
              /\ exitStatus' = [exitStatus EXCEPT ![p] = BindErrorStatus]
              /\ UNCHANGED portOwner
    /\ UNCHANGED <<script, launchDir, cwd, banners, last, sigs, intServing>>
    /\ UNCHANGED reqVars

\* a banner printed twice
BannerTwice(p) ==
    /\ pc[p] = "banner"
    /\ banners' = [banners EXCEPT ![p] = @ + 2]
    /\ pc' = [pc EXCEPT ![p] = IF script[p] = "serve-test.py" THEN "serve" ELSE "hint"]
    /\ UNCHANGED <<script, launchDir, cwd, sock, closes, binds, exitStatus,
                   last, sigs, intServing, portOwner>>
    /\ UNCHANGED reqVars

\* print of the banner with the URL
Banner(p) ==
    /\ pc[p] = "banner"
    /\ banners' = [banners EXCEPT ![p] = @ + 1]
    /\ pc' = [pc EXCEPT ![p] = IF script[p] = "serve-test.py" THEN "serve" ELSE "hint"]
    /\ UNCHANGED <<script, launchDir, cwd, sock, closes, binds, exitStatus,
                   last, sigs, intServing, portOwner>>
    /\ UNCHANGED reqVars

\* print("Press Ctrl+C to stop")
Hint(p) ==
    /\ pc[p] = "hint"
    /\ pc' = [pc EXCEPT ![p] = "serve"]
    /\ UNCHANGED <<script, launchDir, cwd, sock, closes, binds, banners, exitStatus,
                   last, sigs, intServing, portOwner>>
    /\ UNCHANGED reqVars

\* outcome of one request: the status sent, or io_error when the copy of the
\* file to the client raises and BaseServer.handle_error reports it
Outcome(resp, ioFails) ==
    IF resp.status = 200 /\ ioFails THEN "io_error"
    ELSE IF resp.status = 404 THEN "404"
    ELSE IF resp.status = 301 THEN "301"
    ELSE "200"

\* a serve_forever that lets the handler's OSError through
AfterRequestUncaught(outcome) == IF outcome = "io_error" THEN "exited" ELSE "serve"

\* the position of the process after a request with the given outcome:
\* serve_forever catches every Exception of the handler
AfterRequest(outcome) == "serve"

\* one iteration of httpd.serve_forever(): accept a connection and let the
\* handler class answer its request from the current working directory
HandleRequest(p) ==
    /\ pc[p] = "serve"
    /\ sock[p] = "listening"
    /\ \E req \in ProbeRequests, f \in ProbeFs, ioFails \in BOOLEAN :
         LET outcome == Outcome(HandlerResponse(script[p], f, cwd[p], req), ioFails)
         IN  /\ last' = [server |-> p, root |-> cwd[p], outcome |-> outcome,
                         attempts |-> 1]
             /\ pc' = [pc EXCEPT ![p] = AfterRequest(outcome)]
    /\ UNCHANGED <<script, launchDir, cwd, sock, closes, binds, banners, exitStatus,
                   sigs, intServing, portOwner>>
    /\ UNCHANGED reqVars

\* where a KeyboardInterrupt raised at position `at` of script s takes the
\* process: into the except clause (serve-test.py, inside the try only), into
\* the __exit__ of the with block (simple-server.py), or out of the script
InterruptTarget(s, at) ==
    IF s = "serve-test.py"
    THEN IF at = "serve" THEN "except_print" ELSE "exited"
    ELSE IF at \in {"banner", "hint", "serve"} THEN "with_exit" ELSE "exited"

\* the process ends without running any more of the script: the system
\* releases a socket that is still listening
Die(p, status) ==
    /\ pc' = [pc EXCEPT ![p] = "exited"]
    /\ exitStatus' = [exitStatus EXCEPT ![p] = status]
    /\ sock' = [sock EXCEPT ![p] = IF @ = "listening" THEN "reaped" ELSE @]
    /\ portOwner' = IF portOwner = p THEN 0 ELSE portOwner
    /\ last' = IF last.server = p THEN NoLast ELSE last

\* SIGINT (Ctrl+C): Python raises KeyboardInterrupt in the main thread
Interrupt(p) ==
    /\ Alive(p)
    /\ sigs[p] < MaxSignals
    /\ sigs' = [sigs EXCEPT ![p] = @ + 1]
    /\ intServing' = [intServing EXCEPT ![p] = @ \/ pc[p] = "serve"]
    /\ LET target == InterruptTarget(script[p], pc[p])
       IN  IF target = "exited"
           THEN Die(p, KeyboardInterruptStatus)
           ELSE /\ pc' = [pc EXCEPT ![p] = target]
                /\ UNCHANGED <<sock, exitStatus, portOwner, last>>
    /\ UNCHANGED <<script, launchDir, cwd, closes, binds, banners>>
    /\ UNCHANGED reqVars

\* SIGTERM: no handler is installed, the default disposition kills the process
Terminate(p) ==
    /\ Alive(p)
    /\ sigs[p] < MaxSignals
    /\ sigs' = [sigs EXCEPT ![p] = @ + 1]
    /\ Die(p, SigtermStatus)
    /\ UNCHANGED <<script, launchDir, cwd, closes, binds, banners, intServing>>
    /\ UNCHANGED reqVars

\* httpd.server_close()
server_close(p) ==
    /\ sock' = [sock EXCEPT ![p] = "closed"]
    /\ closes' = [closes EXCEPT ![p] = @ + 1]
    /\ portOwner' = IF portOwner = p THEN 0 ELSE portOwner
    /\ last' = IF last.server = p THEN NoLast ELSE last

\* except KeyboardInterrupt: print("\nServer stopped by user")
ExceptPrint(p) ==
    /\ pc[p] = "except_print"
    /\ pc' = [pc EXCEPT ![p] = "except_close"]
    /\ UNCHANGED <<script, launchDir, cwd, sock, closes, binds, banners, exitStatus,
                   last, sigs, intServing, portOwner>>
    /\ UNCHANGED reqVars

\* except KeyboardInterrupt: httpd.server_close()
ExceptClose(p) ==
    /\ pc[p] = "except_close"
    /\ server_close(p)
    /\ pc' = [pc EXCEPT ![p] = "except_exit"]
    /\ UNCHANGED <<script, launchDir, cwd, binds, banners, exitStatus, sigs, intServing>>
    /\ UNCHANGED reqVars

\* except KeyboardInterrupt: sys.exit(0)
SysExit(p) ==
    /\ pc[p] = "except_exit"
    /\ pc' = [pc EXCEPT ![p] = "exited"]
    /\ exitStatus' = [exitStatus EXCEPT ![p] = 0]
    /\ UNCHANGED <<script, launchDir, cwd, sock, closes, binds, banners,
                   last, sigs, intServing, portOwner>>
    /\ UNCHANGED reqVars

\* leaving the with block on an exception: TCPServer.__exit__ calls
\* server_close() and the exception goes on
WithExit(p) ==
    /\ pc[p] = "with_exit"
    /\ server_close(p)
    /\ pc' = [pc EXCEPT ![p] = "unhandled"]
    /\ UNCHANGED <<script, launchDir, cwd, binds, banners, exitStatus, sigs, intServing>>
    /\ UNCHANGED reqVars

\* the KeyboardInterrupt reaches the top of simple-server.py uncaught
Unhandled(p) ==
    /\ pc[p] = "unhandled"
    /\ pc' = [pc EXCEPT ![p] = "exited"]
    /\ exitStatus' = [exitStatus EXCEPT ![p] = KeyboardInterruptStatus]
    /\ UNCHANGED <<script, launchDir, cwd, sock, closes, binds, banners,
                   last, sigs, intServing, portOwner>>
    /\ UNCHANGED reqVars

Next ==
    \E p \in Procs :
        \/ Launch(p)
        \/ Chdir(p)
        \/ Create(p)
        \/ Banner(p)
        \/ Hint(p)
        \/ HandleRequest(p)
        \/ Interrupt(p)
        \/ Terminate(p)
        \/ ExceptPrint(p)
        \/ ExceptClose(p)
        \/ SysExit(p)
        \/ WithExit(p)
        \/ Unhandled(p)

Spec == Init /\ [][Next]_vars

----------------------------------------------------------------------------
\* Properties of the handler classes (checked under SpecReq)

\* what the requested path of the finished request resolves to under the root
Resolved == translate_path(hPassed.path)
Resolution ==
    IF Resolved.trailing /\ Kind(hFs, Resolved.words) = "file" THEN "absent"
    ELSE Kind(hFs, Resolved.words)

\* C1: in serve-test.py a GET for "/" gets the response (status, content
\* type, body, redirect target) that a GET for "/test-claude-ui.html" gets
\* from the same directory tree; it is 404 when that file does not exist.
C1_RootServesDefaultDocument ==
    (hPc = "done" /\ hScript = "serve-test.py" /\ hReq.path = RootPath) =>
        /\ hResp = HandlerResponse("serve-test.py", hFs, ScriptDir,
                                   [hReq EXCEPT !.path = DefaultDocument])
        /\ (hFs[<<"test-claude-ui.html">>] = "absent" => hResp.status = 404)

C1_Witness ==
    /\ hPc = "done" /\ hScript = "serve-test.py" /\ hReq.path = RootPath
    /\ hFs[<<"test-claude-ui.html">>] = "file"
    /\ hFs[<<"index.html">>] = "file"
    /\ hResp.status = 200
    /\ hResp.body.words = <<<<"test-claude-ui.html">>>>

\* C8 as stated: every path that does not resolve to an existing file under
\* the root (a directory included, and "/" in simple-server.py) gets 404.
C8_NoFileMeans404 ==
    (hPc = "done" /\ Resolution # "file") => hResp.status = 404

\* C8 as amended: every path that resolves to neither an existing file nor an
\* existing directory under the root gets 404.
C8_NothingThereMeans404 ==
    (hPc = "done" /\ Resolution = "absent") => hResp.status = 404

C8_Witness ==
    /\ hPc = "done" /\ Resolution = "absent" /\ hResp.status = 404
    /\ hScript = "simple-server.py"
    /\ \E i \in 1..Len(hReq.path) : hReq.path[i] = ParDir

\* C10: do_GET of serve-test.py replaces the path by the default document
\* exactly when the path is the string "/"; every other path, and the method
\* and the headers in both cases, reach the base handler unchanged.
C10_RewriteOnlyRoot ==
    (hPc = "done" /\ hScript = "serve-test.py") =>
        /\ hPassed.method = hReq.method
        /\ hPassed.headers = hReq.headers
        /\ hPassed.path = IF hReq.path = RootPath THEN DefaultDocument ELSE hReq.path

C10_Witness ==
    /\ hPc = "done" /\ hScript = "serve-test.py"
    /\ hReq.path = <<"/", "?", "sub">>
    /\ hReq.headers # {}
    /\ hPassed = hReq

----------------------------------------------------------------------------
\* Properties of the process lifecycle (checked under Spec)

Serving(p) == pc[p] = "serve"
SocketCreated(p) == binds[p] >= 1
\* the directory the requests of process p are resolved from
ServedDir(p) == IF script[p] = "serve-test.py" THEN ScriptDir ELSE launchDir[p]

\* C2 as stated: an interrupt received while serving (and no other signal)
\* always ends in exit status 0, in both scripts.
C2_InterruptExitsZero ==
    \A p \in Procs :
        (pc[p] = "exited" /\ intServing[p] /\ sigs[p] = 1) => exitStatus[p] = 0

\* C3: a process whose bind failed has exited with a non-zero status, after a
\* single bind attempt, without a banner and without having served a request.
C3_BindFailureIsFatal ==
    \A p \in Procs :
        sock[p] = "unbound" =>
            /\ pc[p] = "exited"
            /\ exitStatus[p] \notin {0, Running}
            /\ binds[p] = 1
            /\ banners[p] = 0
            /\ last.server # p

C3_Witness ==
    \E p \in Procs :
        /\ sock[p] = "unbound" /\ pc[p] = "exited" /\ exitStatus[p] = BindErrorStatus
        /\ script[p] = "simple-server.py"
        /\ portOwner = 0

\* C4: at most one process holds the binding; a process that binds while
\* another holds it fails at startup, and that step changes nothing of the
\* holder, which stays where it was with its socket listening.
C4_HolderState ==
    /\ Cardinality({p \in Procs : sock[p] = "listening"}) <= 1
    /\ \A p \in Procs : (sock[p] = "listening") <=> (portOwner = p)

C4_ContenderStep ==
    \A p, q \in Procs :
        (p # q /\ portOwner = q /\ pc[p] = "create" /\ binds'[p] # binds[p]) =>
            /\ sock'[p] = "unbound" /\ pc'[p] = "exited"
            /\ exitStatus'[p] = BindErrorStatus
            /\ portOwner' = q /\ sock'[q] = "listening"
            /\ pc'[q] = pc[q] /\ last' = last

C4_ExclusiveBinding == []C4_HolderState /\ [][C4_ContenderStep]_vars

C4_Witness ==
    \E p, q \in Procs :
        /\ p # q
        /\ sock[p] = "unbound" /\ pc[p] = "exited"
        /\ portOwner = q /\ Serving(q) /\ last.server = q

\* C5 as stated: a created socket is closed exactly once on every way out of
\* the process, never while the server is serving and never twice.
C5_ClosedExactlyOnce ==
    \A p \in Procs :
        /\ closes[p] <= 1
        /\ Serving(p) => closes[p] = 0
        /\ (pc[p] = "exited" /\ SocketCreated(p)) => closes[p] = 1

\* C6: the banner is printed at most once, only after a successful bind and
\* before any request of the process is answered; a process that serves or
\* has gone into its shutdown from serving has printed it exactly once.
C6_BannerOnce ==
    \A p \in Procs :
        /\ banners[p] <= 1
        /\ banners[p] = 1 => (binds[p] = 1 /\ sock[p] \notin {"none", "unbound"})
        /\ pc[p] \in {"launch", "chdir", "create", "banner"} =>
               (banners[p] = 0 /\ last.server # p)
        /\ pc[p] \in {"hint", "serve", "except_print", "except_close", "except_exit"} =>
               banners[p] = 1
        /\ last.server = p => banners[p] = 1

C6_Witness ==
    \E p \in Procs :
        /\ pc[p] = "except_exit" /\ banners[p] = 1 /\ sock[p] = "closed"
        /\ intServing[p]

\* C7: a request that fails (404, or an I/O error while the file is sent)
\* leaves the server in serve_forever with its socket listening, which is
\* all the next request needs; the handler was run once for it.
C7_ServingAfterRequest ==
    \A p \in Procs :
        (last.server = p /\ sigs[p] = 0) =>
            /\ Serving(p)
            /\ sock[p] = "listening" /\ portOwner = p
            /\ last.attempts = 1

C7_Witness ==
    \E p \in Procs :
        /\ last.server = p /\ last.outcome = "io_error"
        /\ Serving(p) /\ sock[p] = "listening" /\ sigs[p] = 0

\* C9 as stated: in both scripts every request is resolved from the script's
\* own directory, whatever directory the process was launched from.
C9_RootIsScriptDir ==
    \A p \in Procs : last.server = p => last.root = ScriptDir

\* C9 as amended: serve-test.py resolves every request from the script's own
\* directory, simple-server.py from the directory the process was launched
\* from; the directory is set before the socket is created and is the one
\* every request of the process is resolved from.
C9_RootIsFixed ==
    \A p \in Procs :
        /\ SocketCreated(p) => cwd[p] = ServedDir(p)
        /\ last.server = p => last.root = ServedDir(p)

C9_Witness ==
    \E p, q \in Procs :
        /\ script[p] = "serve-test.py" /\ launchDir[p] # ScriptDir
        /\ cwd[p] = ScriptDir /\ pc[p] = "exited" /\ banners[p] = 1
        /\ script[q] = "simple-server.py" /\ launchDir[q] # ScriptDir
        /\ last.server = q /\ last.root = launchDir[q]

====
